---- MODULE Spec2Model ----
(***************************************************************************)
(* Model of rfcontrol.py: class RfControl, a controller of mechanical RF   *)
(* attenuation units reached through VISA serial (ACM) resources, and the  *)
(* module function get_acm_ctrl_list.                                      *)
(*                                                                         *)
(* Python strings are modelled as sequences of one-character strings so    *)
(* that the substring test, str.split, float() and '{:f}'.format are       *)
(* computed rather than assumed.  A Python float is modelled as an integer *)
(* count of 10^-FracDigits dB.  None is the empty tuple, a present value v *)
(* is <<v>>.  A dict is a sequence of [name, ins] items in insertion order *)
(* (CPython >= 3.7).                                                       *)
(***************************************************************************)
EXTENDS Integers, Sequences, FiniteSets, TLC

VARIABLES
    bus,                \* environment: what list_resources() will return
    devTab,             \* environment: per address, the device's ATT:ATTTabGet? line
    devAtt,             \* environment: per address, the device's attenuation
    phase,              \* "new" | "ready" (constructed) | "failed" (__init__ raised)
    resource_mgr,       \* self.resource_mgr: "None" | "open" | "closed"
    rmCloseCalls,       \* number of resource_mgr.close() calls made
    listed,             \* <<>> or <<l>>: value returned by list_resources()
    resource_names,     \* self.resource_names
    sessions,           \* every channel open_resource() returned, in order
    instruments,        \* self.instruments: [isDict, items]
    att_values_allowed, \* self.att_values_allowed: items [name, vals]
    delCalls,           \* number of __del__ invocations
    ret,                \* outcome of the last call
    sent,               \* commands written during the last call
    resp                \* response lines read during the last call

vars == <<bus, devTab, devAtt, phase, resource_mgr, rmCloseCalls, listed,
          resource_names, sessions, instruments, att_values_allowed,
          delCalls, ret, sent, resp>>

-----------------------------------------------------------------------------
(* Bounds of the model *)

MaxRes == 2     \* longest list_resources() result explored
MaxDel == 2     \* most __del__ invocations explored

-----------------------------------------------------------------------------
(* Strings *)

Digits == <<"0", "1", "2", "3", "4", "5", "6", "7", "8", "9">>

IsDigit(c) == \E i \in 1..10 : Digits[i] = c

DigitVal(c) == (CHOOSE i \in 1..10 : Digits[i] = c) - 1

Range(s) == {s[i] : i \in 1..Len(s)}

RECURSIVE DecVal(_)
\* value of a (possibly empty) string of decimal digits
DecVal(ds) ==
    IF ds = <<>> THEN 0
    ELSE DecVal(SubSeq(ds, 1, Len(ds) - 1)) * 10 + DigitVal(ds[Len(ds)])

RECURSIVE DecStr(_)
\* '%d' % n for n >= 0
DecStr(n) ==
    IF n < 10 THEN <<Digits[n + 1]>>
    ELSE DecStr(n \div 10) \o <<Digits[(n % 10) + 1]>>

RECURSIVE ZeroPad(_, _)
ZeroPad(s, w) == IF Len(s) >= w THEN s ELSE ZeroPad(<<"0">> \o s, w)

\* digits after the decimal point printed by '{:f}'
FracDigits == 6

Scale == 10 ^ FracDigits

\* 'ACM'
ACM == <<"A", "C", "M">>

\* sub in s
Contains(sub, s) ==
    \E i \in 0..(Len(s) - Len(sub)) : SubSeq(s, i + 1, i + Len(sub)) = sub

\* faulty variant: no filtering
get_acm_ctrl_list_all(interfaces_list) == interfaces_list

\* [elem for elem in interfaces_list if 'ACM' in elem]
get_acm_ctrl_list(interfaces_list) ==
    SelectSeq(interfaces_list, LAMBDA elem : Contains(ACM, elem))

RECURSIVE SplitOn(_, _, _)
SplitOn(s, sep, cur) ==
    IF s = <<>> THEN <<cur>>
    ELSE IF Head(s) = sep THEN <<cur>> \o SplitOn(Tail(s), sep, <<>>)
    ELSE SplitOn(Tail(s), sep, Append(cur, Head(s)))

\* list(s.split(','))
Split(s) == SplitOn(s, ",", <<>>)

DotPositions(s) == {i \in 1..Len(s) : s[i] = "."}

\* float(s) succeeds (for strings over digits, '.', and other printing
\* characters; signs, exponents and blanks are outside the explored strings)
IsFloatLiteral(s) ==
    /\ \A i \in 1..Len(s) : IsDigit(s[i]) \/ s[i] = "."
    /\ Cardinality(DotPositions(s)) <= 1
    /\ \E i \in 1..Len(s) : IsDigit(s[i])

\* float(s) for a float literal s
ToFloat(s) ==
    LET d  == IF DotPositions(s) = {} THEN Len(s) + 1
              ELSE CHOOSE i \in DotPositions(s) : TRUE
        ip == SubSeq(s, 1, d - 1)
        fp == SubSeq(s, d + 1, Len(s))
    IN  DecVal(ip) * Scale + DecVal(fp) * 10 ^ (FracDigits - Len(fp))

\* '{:f}'.format(v)
FormatF(v) == DecStr(v \div Scale) \o <<".">> \o ZeroPad(DecStr(v % Scale), FracDigits)

\* 'att%d' % i
AttName(i) == <<"a", "t", "t">> \o DecStr(i)

\* l.index(x), zero-based, for x in l
Index(l, x) == (CHOOSE i \in 1..Len(l) : l[i] = x /\ \A j \in 1..(i - 1) : l[j] # x) - 1

-----------------------------------------------------------------------------
(* Environment: the VISA bus and the attenuator units behind it *)

Addr0 == <<"A", "C", "M", "0">>
Addr1 == <<"/", "A", "C", "M", "1">>
AddrU == <<"U", "S", "B", "0">>

Addresses == {Addr0, Addr1, AddrU}

BusLists == UNION {[1..n -> Addresses] : n \in 0..MaxRes}

\* '0,5,10' and '5.0,' (a trailing comma: the last token is empty)
Tab1 == <<"0", ",", "5", ",", "1", "0">>
Tab2 == <<"5", ".", "0", ",">>

TableResponses == {Tab1, Tab2}

\* a response line that is no number
Garbage == <<"E", "R", "R">>

None == <<>>

Some(v) == <<v>>

\* the attenuation levels a unit with table line tab can take
Levels(tab) == {ToFloat(t) : t \in {u \in Range(Split(tab)) : IsFloatLiteral(u)}}

Max(S) == CHOOSE x \in S : \A y \in S : y <= x

Min(S) == CHOOSE x \in S : \A y \in S : x <= y

CmdTabGet == [verb |-> "ATT:ATTTabGet?", arg |-> <<>>]

CmdGetCurVal == [verb |-> "ATT:ATTGetCurVal?", arg |-> <<>>]

CmdSetUp == [verb |-> "ATT:ATTSetUp?", arg |-> <<>>]

CmdSetDown == [verb |-> "ATT:ATTSetDown?", arg |-> <<>>]

\* 'ATT:ATTSet? {:f}'.format(v)
CmdSet(v) == [verb |-> "ATT:ATTSet?", arg |-> FormatF(v)]

\* the unit's attenuation after it has executed cmd
DevReact(att, tab, cmd) ==
    CASE cmd.verb = "ATT:ATTSet?" -> ToFloat(cmd.arg)
      [] cmd.verb = "ATT:ATTSetUp?" ->
            LET up == {l \in Levels(tab) : l > att}
            IN  IF up = {} THEN att ELSE Min(up)
      [] cmd.verb = "ATT:ATTSetDown?" ->
            LET dn == {l \in Levels(tab) : l < att}
            IN  IF dn = {} THEN att ELSE Max(dn)
      [] OTHER -> att

\* the lines a unit may answer a value command with: its attenuation in
\* either notation, or a malformed line
EchoLines(att, tab) ==
    {FormatF(att), Garbage}
        \cup {t \in Range(Split(tab)) : IsFloatLiteral(t) /\ ToFloat(t) = att}

\* outcomes of ins.query(cmd) on a unit: a timeout (VisaIOError, the unit
\* did not act) or one response line (the unit acted)
Timeout == [kind |-> "timeout", line |-> <<>>]

QueryOutcomes(att, tab, cmd) ==
    {Timeout} \cup
    {[kind |-> "line", line |-> l] : l \in EchoLines(DevReact(att, tab, cmd), tab)}

-----------------------------------------------------------------------------
(* Values of the state *)

DefaultTimeout == 1000

DefaultTermination == "\r\n"

\* the class-level defaults
ClassInstruments == [isDict |-> FALSE, items |-> <<>>]

ClassAttValuesAllowed == <<>>

NoArg == [type |-> "none", s |-> <<>>, f |-> 0]

StrArg(s) == [type |-> "str", s |-> s, f |-> 0]

FloatArg(f) == [type |-> "float", s |-> <<>>, f |-> f]

NoRet == [call |-> "", name |-> <<>>, value |-> NoArg, raised |-> FALSE,
          exc |-> "", status |-> FALSE, att_val |-> None, msg |-> "",
          list |-> <<>>]

Raise(call, name, value, exc) ==
    [NoRet EXCEPT !.call = call, !.name = name, !.value = value,
                  !.raised = TRUE, !.exc = exc]

Return(call, name, value, status, att_val, msg) ==
    [NoRet EXCEPT !.call = call, !.name = name, !.value = value,
                  !.status = status, !.att_val = att_val, !.msg = msg]

ReturnList(call, l) == [NoRet EXCEPT !.call = call, !.list = l]

Init ==
    /\ bus \in BusLists
    /\ devTab \in {t \in [Range(bus) -> TableResponses] :
                        \A a \in Range(bus) : ~Contains(ACM, a) => t[a] = Tab1}
    /\ devAtt = [a \in Range(bus) |-> 0]
    /\ phase = "new"
    /\ resource_mgr = "None"
    /\ rmCloseCalls = 0
    /\ listed = None
    /\ resource_names = <<>>
    /\ sessions = <<>>
    /\ instruments = ClassInstruments
    /\ att_values_allowed = ClassAttValuesAllowed
    /\ delCalls = 0
    /\ ret = NoRet
    /\ sent = <<>>
    /\ resp = <<>>

-----------------------------------------------------------------------------
(* Dict helpers *)

Keys(items) == [i \in 1..Len(items) |-> items[i].name]

HasKey(items, k) == \E i \in 1..Len(items) : items[i].name = k

Pos(items, k) == CHOOSE i \in 1..Len(items) : items[i].name = k

\* d[k] = v: a present key keeps its place
DictPut(items, k, v) ==
    IF HasKey(items, k) THEN [items EXCEPT ![Pos(items, k)] = v]
    ELSE Append(items, v)

-----------------------------------------------------------------------------
(* RfControl.__init__ *)

NewSession(addr) ==
    [addr |-> addr, open |-> TRUE, read_termination |-> None,
     timeout |-> None, closeCalls |-> 0, tabGets |-> 0]

\* 'att%d' % self.resource_names.index(ins), ins the i-th name
InstrumentKey(names, i) == AttName(Index(names, names[i]))

RECURSIVE InstrumentItems(_, _)
\* the dict comprehension of lines 36-37 after its first n iterations; the
\* i-th iteration opens channel number i
InstrumentItems(names, n) ==
    IF n = 0 THEN <<>>
    ELSE DictPut(InstrumentItems(names, n - 1), InstrumentKey(names, n),
                 [name |-> InstrumentKey(names, n), ins |-> n])

Faults ==
    {[stage |-> s, idx |-> 1] : s \in {"none", "rm", "list"}}
        \cup {[stage |-> s, idx |-> i] : s \in {"open", "tabget"}, i \in 1..MaxRes}

\* the channels registered in a dict
Registered(items) == {items[i].ins : i \in 1..Len(items)}

\* lines 40-42
ApplySettings(ss, items, timeout, line_termination) ==
    [i \in 1..Len(ss) |->
        IF i \in Registered(items)
        THEN [ss[i] EXCEPT !.read_termination = Some(line_termination),
                           !.timeout = Some(timeout)]
        ELSE ss[i]]

\* the channels of the first n items have each been sent ATT:ATTTabGet?
CountTabGets(ss, items, n) ==
    [i \in 1..Len(ss) |->
        IF \E j \in 1..n : items[j].ins = i
        THEN [ss[i] EXCEPT !.tabGets = @ + 1]
        ELSE ss[i]]

\* lines 45-46
AllowedItems(ss, items) ==
    [j \in 1..Len(items) |->
        [name |-> items[j].name, vals |-> Split(devTab[ss[items[j].ins].addr])]]

TabGetsSent(items, n) == [j \in 1..n |-> [ins |-> items[j].ins, cmd |-> CmdTabGet]]

Construct(timeout, line_termination, fault) ==
    /\ phase = "new"
    /\ UNCHANGED <<bus, devTab, devAtt, rmCloseCalls, delCalls>>
    /\ IF fault.stage = "rm"
       THEN \* visa.ResourceManager('@py') raises
            /\ phase' = "failed"
            /\ ret' = Raise("__init__", <<>>, NoArg, "VisaIOError")
            /\ sent' = <<>>
            /\ resp' = <<>>
            /\ UNCHANGED <<resource_mgr, listed, resource_names, sessions,
                           instruments, att_values_allowed>>
       ELSE
       /\ resource_mgr' = "open"
       /\ IF fault.stage = "list"
          THEN \* list_resources() raises
               /\ phase' = "failed"
               /\ ret' = Raise("__init__", <<>>, NoArg, "VisaIOError")
               /\ sent' = <<>>
               /\ resp' = <<>>
               /\ UNCHANGED <<listed, resource_names, sessions, instruments,
                              att_values_allowed>>
          ELSE
          LET names == get_acm_ctrl_list(bus)
              k     == Len(names)
          IN
          /\ listed' = Some(bus)
          /\ resource_names' = names
          /\ IF names = <<>>
             THEN /\ phase' = "failed"
                  /\ ret' = Raise("__init__", <<>>, NoArg, "NameError")
                  /\ sent' = <<>>
                  /\ resp' = <<>>
                  /\ UNCHANGED <<sessions, instruments, att_values_allowed>>
             ELSE IF fault.stage = "open" /\ fault.idx <= k
             THEN \* open_resource() raises in iteration fault.idx
                  /\ phase' = "failed"
                  /\ ret' = Raise("__init__", <<>>, NoArg, "VisaIOError")
                  /\ sessions' = [i \in 1..(fault.idx - 1) |-> NewSession(names[i])]
                  /\ sent' = <<>>
                  /\ resp' = <<>>
                  /\ UNCHANGED <<instruments, att_values_allowed>>
             ELSE
             LET items  == InstrumentItems(names, k)
                 opened == ApplySettings([i \in 1..k |-> NewSession(names[i])],
                                         items, timeout, line_termination)
             IN
             /\ instruments' = [isDict |-> TRUE, items |-> items]
             /\ IF fault.stage = "tabget" /\ fault.idx <= Len(items)
                THEN \* the query of item fault.idx raises
                     /\ phase' = "failed"
                     /\ ret' = Raise("__init__", <<>>, NoArg, "VisaIOError")
                     /\ sessions' = CountTabGets(opened, items, fault.idx)
                     /\ sent' = TabGetsSent(items, fault.idx)
                     /\ resp' = [j \in 1..(fault.idx - 1) |->
                                    devTab[opened[items[j].ins].addr]]
                     /\ UNCHANGED att_values_allowed
                ELSE /\ phase' = "ready"
                     /\ ret' = [NoRet EXCEPT !.call = "__init__"]
                     /\ sessions' = CountTabGets(opened, items, Len(items))
                     /\ sent' = TabGetsSent(items, Len(items))
                     /\ resp' = [j \in 1..Len(items) |->
                                    devTab[opened[items[j].ins].addr]]
                     /\ att_values_allowed' = AllowedItems(opened, items)

-----------------------------------------------------------------------------
(* The public operations *)

Bogus == <<"b", "o", "g", "u", "s">>

NameInputs == {AttName(i) : i \in 0..MaxRes} \cup {Bogus}

ValueInputs ==
    {StrArg(<<"5">>), StrArg(<<"5", ".", "0">>), StrArg(<<"7">>), StrArg(<<>>),
     FloatArg(5 * Scale)}

MsgNameNotFound == "Instrument name not found"

MsgUnsupported == "Unsupported attenuation value"

\* faulty variant: the message of the other two methods
MsgStepUnknown_renamed == "Instrument name not found"

\* the message of the else branch of set_step_up and set_step_down
MsgStepUnknown == "Unsupported attenuation value"

\* the object can be called: it was constructed and not torn down
Callable == phase = "ready" /\ delCalls = 0

\* faulty variant: always the first registered channel
Lookup_first(name) == instruments.items[1].ins

\* self.instruments[name]
Lookup(name) == instruments.items[Pos(instruments.items, name)].ins

\* self.att_values_allowed[name]
AllowedOf(name) == att_values_allowed[Pos(att_values_allowed, name)].vals

\* faulty variant: membership by numeric equality
PyIn_numeric(value, l) ==
    \/ value.type = "float" /\ \E i \in 1..Len(l) : IsFloatLiteral(l[i]) /\ ToFloat(l[i]) = value.f
    \/ /\ value.type = "str"
       /\ \E i \in 1..Len(l) :
            \/ l[i] = value.s
            \/ IsFloatLiteral(l[i]) /\ IsFloatLiteral(value.s) /\ ToFloat(l[i]) = ToFloat(value.s)

\* value in l, l a list of str: a float never equals a str
PyIn(value, l) == value.type = "str" /\ \E i \in 1..Len(l) : l[i] = value.s

\* float(value) succeeds
CanFloat(value) == value.type = "float" \/ IsFloatLiteral(value.s)

\* float(value)
Float(value) == IF value.type = "float" THEN value.f ELSE ToFloat(value.s)

\* att_val = float(self.instruments[name].query(cmd)); status = True;
\* return status, att_val, msg
ValueQuery(call, name, value, cmd) ==
    LET ins  == Lookup(name)
        addr == sessions[ins].addr
    IN  \E o \in QueryOutcomes(devAtt[addr], devTab[addr], cmd) :
          /\ sent' = <<[ins |-> ins, cmd |-> cmd]>>
          /\ IF o.kind = "timeout"
             THEN /\ ret' = Raise(call, name, value, "VisaIOError")
                  /\ resp' = <<>>
                  /\ UNCHANGED devAtt
             ELSE /\ devAtt' = [devAtt EXCEPT ![addr] = DevReact(@, devTab[addr], cmd)]
                  /\ resp' = <<o.line>>
                  /\ ret' = IF IsFloatLiteral(o.line)
                            THEN Return(call, name, value, TRUE, Some(ToFloat(o.line)), "")
                            ELSE Raise(call, name, value, "ValueError")

\* a call that returns without touching any channel
Reject(call, name, value, msg) ==
    /\ ret' = Return(call, name, value, FALSE, None, msg)
    /\ sent' = <<>>
    /\ resp' = <<>>
    /\ UNCHANGED devAtt

ObjectUnchanged ==
    UNCHANGED <<bus, devTab, phase, resource_mgr, rmCloseCalls, listed,
                resource_names, sessions, instruments, att_values_allowed,
                delCalls>>

\* list(self.instruments.keys())
InstrumentNames == Keys(instruments.items)

get_instrument_names ==
    /\ Callable
    /\ ret' = ReturnList("get_instrument_names", InstrumentNames)
    /\ sent' = <<>>
    /\ resp' = <<>>
    /\ UNCHANGED devAtt
    /\ ObjectUnchanged

\* faulty variant: queries the tables again instead of returning the cache
get_available_gain_values_refetch ==
    /\ Callable
    /\ ret' = ReturnList("get_available_gain_values",
                         AllowedItems(sessions, instruments.items))
    /\ sent' = TabGetsSent(instruments.items, Len(instruments.items))
    /\ resp' = [j \in 1..Len(instruments.items) |->
                   devTab[sessions[instruments.items[j].ins].addr]]
    /\ sessions' = CountTabGets(sessions, instruments.items, Len(instruments.items))
    /\ UNCHANGED <<devAtt, bus, devTab, phase, resource_mgr, rmCloseCalls, listed,
                   resource_names, instruments, att_values_allowed, delCalls>>

get_available_gain_values ==
    /\ Callable
    /\ ret' = ReturnList("get_available_gain_values", att_values_allowed)
    /\ sent' = <<>>
    /\ resp' = <<>>
    /\ UNCHANGED devAtt
    /\ ObjectUnchanged

get_att_value(instrument_name) ==
    /\ Callable
    /\ IF HasKey(instruments.items, instrument_name)
       THEN ValueQuery("get_att_value", instrument_name, NoArg, CmdGetCurVal)
       ELSE Reject("get_att_value", instrument_name, NoArg, MsgNameNotFound)
    /\ ObjectUnchanged

set_att_value(instrument_name, att_value) ==
    /\ Callable
    /\ IF HasKey(instruments.items, instrument_name)
       THEN IF PyIn(att_value, AllowedOf(instrument_name))
            THEN IF CanFloat(att_value)
                 THEN ValueQuery("set_att_value", instrument_name, att_value,
                                 CmdSet(Float(att_value)))
                 ELSE \* float(att_value) raises before anything is sent
                      /\ ret' = Raise("set_att_value", instrument_name, att_value,
                                      "ValueError")
                      /\ sent' = <<>>
                      /\ resp' = <<>>
                      /\ UNCHANGED devAtt
            ELSE Reject("set_att_value", instrument_name, att_value, MsgUnsupported)
       ELSE Reject("set_att_value", instrument_name, att_value, MsgNameNotFound)
    /\ ObjectUnchanged

set_step_up(instrument_name) ==
    /\ Callable
    /\ IF HasKey(instruments.items, instrument_name)
       THEN ValueQuery("set_step_up", instrument_name, NoArg, CmdSetUp)
       ELSE Reject("set_step_up", instrument_name, NoArg, MsgStepUnknown)
    /\ ObjectUnchanged

set_step_down(instrument_name) ==
    /\ Callable
    /\ IF HasKey(instruments.items, instrument_name)
       THEN ValueQuery("set_step_down", instrument_name, NoArg, CmdSetDown)
       ELSE Reject("set_step_down", instrument_name, NoArg, MsgStepUnknown)
    /\ ObjectUnchanged

-----------------------------------------------------------------------------
(* RfControl.__del__ *)

\* ins.close() called on the channels of the first n items, the first m of
\* them with success
CloseItems(ss, items, n, m) ==
    [i \in 1..Len(ss) |->
        [ss[i] EXCEPT
            !.closeCalls = @ + Cardinality({j \in 1..n : items[j].ins = i}),
            !.open = @ /\ ~ \E j \in 1..m : items[j].ins = i]]

\* closeFail: the iteration of the loop in which ins.close() raises, 0 for none
Del(closeFail) ==
    /\ phase \in {"ready", "failed"}
    /\ delCalls < MaxDel
    /\ delCalls' = delCalls + 1
    /\ sent' = <<>>
    /\ resp' = <<>>
    /\ UNCHANGED <<bus, devTab, devAtt, phase, listed, resource_names,
                   instruments, att_values_allowed>>
    /\ IF ~instruments.isDict
       THEN \* the class-level list has no .values()
            /\ ret' = Raise("__del__", <<>>, NoArg, "AttributeError")
            /\ UNCHANGED <<sessions, resource_mgr, rmCloseCalls>>
       ELSE LET items == instruments.items
                n     == Len(items)
            IN  IF closeFail \in 1..n
                THEN /\ ret' = Raise("__del__", <<>>, NoArg, "VisaIOError")
                     /\ sessions' = CloseItems(sessions, items, closeFail, closeFail - 1)
                     /\ UNCHANGED <<resource_mgr, rmCloseCalls>>
                ELSE /\ ret' = [NoRet EXCEPT !.call = "__del__"]
                     /\ sessions' = CloseItems(sessions, items, n, n)
                     /\ resource_mgr' = "closed"
                     /\ rmCloseCalls' = rmCloseCalls + 1

Next ==
    \/ \E f \in Faults : Construct(DefaultTimeout, DefaultTermination, f)
    \/ get_instrument_names
    \/ get_available_gain_values
    \/ \E n \in NameInputs : get_att_value(n)
    \/ \E n \in NameInputs, v \in ValueInputs : set_att_value(n, v)
    \/ \E n \in NameInputs : set_step_up(n)
    \/ \E n \in NameInputs : set_step_down(n)
    \/ \E c \in 0..MaxRes : Del(c)

Spec == Init /\ [][Next]_vars

-----------------------------------------------------------------------------
(* Vocabulary of the properties *)

FacadeCalls == {"get_att_value", "set_att_value", "set_step_up", "set_step_down"}

\* n is a key of the registry
IsRegistered(n) == \E j \in 1..Len(instruments.items) : instruments.items[j].name = n

\* the channel registered under n
BoundSession(n) ==
    instruments.items[CHOOSE j \in 1..Len(instruments.items) :
                          instruments.items[j].name = n].ins

\* the cached allowed-value list of n
CachedList(n) ==
    att_values_allowed[CHOOSE j \in 1..Len(att_values_allowed) :
                           att_values_allowed[j].name = n].vals

\* v is, as a string token, an element of the cached list of n
IsMember(n, v) == v.type = "str" /\ v.s \in Range(CachedList(n))

\* what Python's split(',') makes of the two table lines
ExpectedTokens(tab) ==
    IF tab = Tab1 THEN << <<"0">>, <<"5">>, <<"1", "0">> >>
    ELSE << <<"5", ".", "0">>, <<>> >>

\* the addresses of the bus whose identifier carries the ACM marker
Matching == SelectSeq(bus, LAMBDA a : \E i \in 1..Len(a) - 2 :
                                         a[i] = "A" /\ a[i + 1] = "C" /\ a[i + 2] = "M")

RejectedTriple(msg) ==
    ~ret.raised /\ ret.status = FALSE /\ ret.att_val = None /\ ret.msg = msg

-----------------------------------------------------------------------------
(* C1 *)

-----------------------------------------------------------------------------
(* C2 *)

\* C2: for a name that is not registered, get_att_value and set_att_value
\* return (false, null, "Instrument name not found"), set_step_up and
\* set_step_down return (false, null, "Unsupported attenuation value").
C2_UnknownName ==
    (ret.call \in FacadeCalls /\ ~IsRegistered(ret.name)) =>
        IF ret.call \in {"get_att_value", "set_att_value"}
        THEN RejectedTriple("Instrument name not found")
        ELSE RejectedTriple("Unsupported attenuation value")

C2_Witness ==
    /\ ret.call = "set_step_down"
    /\ ret.name = Bogus
    /\ ~IsRegistered(Bogus)
    /\ ret.msg = "Unsupported attenuation value"

-----------------------------------------------------------------------------
(* C3 *)

\* C3: after a successful construction over k matching addresses the names
\* are exactly att0 .. att<k-1> in enumeration order, att<i> bound to the
\* channel opened on the i-th matching address, for every address list,
\* and get_instrument_names returns that list after any operations.
C3_NamesByEnumerationOrder ==
    phase = "ready" =>
        /\ InstrumentNames = [i \in 1..Len(Matching) |-> AttName(i - 1)]
        /\ \A i \in 1..Len(Matching) :
              /\ IsRegistered(AttName(i - 1))
              /\ BoundSession(AttName(i - 1)) = i
              /\ sessions[i].addr = Matching[i]
        /\ ret.call = "get_instrument_names" =>
              ret.list = [i \in 1..Len(Matching) |-> AttName(i - 1)]

-----------------------------------------------------------------------------
(* C4 *)

\* C4: no facade operation lets an error escape: every call returns a
\* triple, and no triple has success=true with a null value.
C4_NoExceptionEscapes ==
    ret.call \in FacadeCalls =>
        /\ ~ret.raised
        /\ ~(ret.status = TRUE /\ ret.att_val = None)

-----------------------------------------------------------------------------
(* C5 *)

\* C5: when the constructor has failed, no channel it opened is still open.
C5_FailedConstructionLeavesNoOpenChannel ==
    phase = "failed" => \A i \in 1..Len(sessions) : ~sessions[i].open

-----------------------------------------------------------------------------
(* C6 *)

\* C6: when the enumerated list has no address with the ACM marker,
\* construction fails with NameError, no channel is ever opened and the
\* object has no instrument names.
C6_NoAcmResource ==
    (listed # None /\ Matching = <<>>) =>
        /\ phase = "failed"
        /\ ret.call = "__init__" => (ret.raised /\ ret.exc = "NameError")
        /\ sessions = <<>>
        /\ ~instruments.isDict
        /\ InstrumentNames = <<>>

C6_Witness ==
    /\ listed = Some(<<AddrU>>)
    /\ phase = "failed"
    /\ ret.call = "__init__"
    /\ ret.exc = "NameError"

-----------------------------------------------------------------------------
(* C7 *)

\* C7: once teardown has run on an object that holds a resource manager,
\* the manager has been released exactly once, after every channel was
\* closed; also after a failed construction, a repeated teardown or a
\* failing close.
C7_ManagerReleasedExactlyOnce ==
    (delCalls >= 1 /\ resource_mgr # "None") =>
        /\ rmCloseCalls = 1
        /\ \A i \in 1..Len(sessions) : ~sessions[i].open

-----------------------------------------------------------------------------
(* C8 *)

\* C8: on a constructed object, after any calls, every registered channel
\* has been sent ATT:ATTTabGet? exactly once (by the constructor), and the
\* list cached under its name is the split of the line it answered then.
C8_AllowedValuesFetchedOnce ==
    phase = "ready" =>
        /\ Len(att_values_allowed) = Len(instruments.items)
        /\ \A j \in 1..Len(instruments.items) :
              LET s == sessions[instruments.items[j].ins]
              IN  /\ s.tabGets = 1
                  /\ att_values_allowed[j].name = instruments.items[j].name
                  /\ att_values_allowed[j].vals = ExpectedTokens(devTab[s.addr])
        /\ ret.call # "__init__" =>
              \A i \in 1..Len(sent) : sent[i].cmd.verb # "ATT:ATTTabGet?"

\* the cache is intact after a successful set and a following list call
C8_Witness ==
    /\ ret.call = "get_available_gain_values"
    /\ Len(ret.list) = 2
    /\ ret.list[1].vals = << <<"0">>, <<"5">>, <<"1", "0">> >>
    /\ ret.list[2].vals = << <<"5", ".", "0">>, <<>> >>
    /\ \E a \in DOMAIN devAtt : devAtt[a] = 5000000

-----------------------------------------------------------------------------
(* C9 *)

\* C9: at every point each transport address has at most one open channel.
C9_OneChannelPerAddress ==
    \A a \in Addresses :
        Cardinality({i \in 1..Len(sessions) :
                        sessions[i].addr = a /\ sessions[i].open}) <= 1

-----------------------------------------------------------------------------
(* C10 *)

\* the call recorded in ret passed the name and value checks
PassedValidation ==
    /\ IsRegistered(ret.name)
    /\ ret.call = "set_att_value" => IsMember(ret.name, ret.value)

ExpectedVerb ==
    CASE ret.call = "get_att_value" -> "ATT:ATTGetCurVal?"
      [] ret.call = "set_att_value" -> "ATT:ATTSet?"
      [] ret.call = "set_step_up" -> "ATT:ATTSetUp?"
      [] ret.call = "set_step_down" -> "ATT:ATTSetDown?"

WillSend ==
    PassedValidation /\ (ret.call = "set_att_value" => CanFloat(ret.value))

\* what the recorded call wrote, and where
SentAsExpected ==
    /\ Len(sent) <= 1
    /\ WillSend =>
          /\ Len(sent) = 1
          /\ sent[1].ins = BoundSession(ret.name)
          /\ sent[1].cmd.verb = ExpectedVerb
          /\ ret.call = "set_att_value" =>
                sent[1].cmd.arg = <<"5", ".", "0", "0", "0", "0", "0", "0">>
          /\ ret.call # "set_att_value" => sent[1].cmd.arg = <<>>
    /\ ~WillSend => sent = <<>>

\* the units the recorded call must not touch
UnitsOffLimits ==
    IF WillSend
    THEN DOMAIN devAtt \ {sessions[BoundSession(ret.name)].addr}
    ELSE DOMAIN devAtt

====
